---------------------------- MODULE Spec2Model ----------------------------
(***************************************************************************)
(* Model of scaffoldmaker/meshtypes/meshtype_3d_colonsegmentsimplemesentery1*)
(*                                                                         *)
(* Two state machines share this module:                                   *)
(*   SpecOptions : an options map and repeated runs of checkOptions.       *)
(*   Spec        : one call of getColonSegmentInnerPointsNoTeniaColi, its   *)
(*                 loops unrolled one iteration per step, calling          *)
(*                 createSegmentNoTeniaColi once per plane.                *)
(*                                                                         *)
(* Python floats are fixed-point integers: a length v is stored as v*Unit  *)
(* (thousandths); an angle is stored in half-degrees (HalfTurn = pi).      *)
(***************************************************************************)
EXTENDS Integers, Sequences, FiniteSets, TLC

VARIABLES
    options,      \* the options map checkOptions mutates in place
    input,        \* the options map as first handed to checkOptions
    prev,         \* the options map before the latest checkOptions run
    runs,         \* number of checkOptions runs so far
    pc,           \* position inside getColonSegmentInnerPointsNoTeniaColi
    args,         \* its arguments
    annotationArray, transitElementList,
    sRadius, sMZWidth,
    n2, n1,       \* loop counters
    xList, d1List, uList, d2Up, d2Raw, d2List,
    calls,        \* createSegmentNoTeniaColi calls made: arguments and outcome
    returned      \* whether the function returned its tuple

optVars == <<options, input, prev, runs>>
segVars == <<pc, args, annotationArray, transitElementList, sRadius, sMZWidth,
             n2, n1, xList, d1List, uList, d2Up, d2Raw, d2List, calls, returned>>
vars == <<options, input, prev, runs, pc, args, annotationArray,
          transitElementList, sRadius, sMZWidth, n2, n1, xList, d1List,
          uList, d2Up, d2Raw, d2List, calls, returned>>

---------------------------------------------------------------------------
(* Fixed-point representation                                              *)

\* one length unit is 1/Unit
Unit == 10 * 10 * 10
\* round(v, 2) keeps hundredths: Centi length units each
Centi == Unit \div (10 * 10)
\* math.pi as the rational PiNum / PiDen
PiNum == 355
PiDen == 113

Abs(v) == IF v < 0 THEN -v ELSE v
Min(a, b) == IF a < b THEN a ELSE b

\* Python's round(num/den, 2) of a non-negative value, in length units:
\* nearest hundredth, a tie going to the even hundredth.
Round2(num, den) ==
    LET d == den * Centi
        q == num \div d
        r == num % d
        k == IF 2 * r > d THEN q + 1
             ELSE IF 2 * r < d THEN q
             ELSE IF q % 2 = 0 THEN q ELSE q + 1
    IN  k * Centi

---------------------------------------------------------------------------
(* checkOptions                                                            *)

kMZ      == "Number of elements around mesenteric zone"
kNonMZ   == "Number of elements around non-mesenteric zone"
kAlong   == "Number of elements along segment"
kWall    == "Number of elements through wall"
kStartR  == "Start inner radius"
kStartRD == "Start radius derivative"
kEndR    == "End inner radius"
kEndRD   == "End radius derivative"
kStartW  == "Start mesenteric zone width"
kStartWD == "Start mesenteric zone width derivative"
kEndW    == "End mesenteric zone width"
kEndWD   == "End mesenteric zone width derivative"
kLength  == "Segment length"
kThick   == "Wall thickness"
kCross   == "Use cross derivatives"
kLinear  == "Use linear through wall"
kRefine  == "Refine"
kRefAround == "Refine number of elements around"
kRefAlong  == "Refine number of elements along segment"
kRefWall   == "Refine number of elements through wall"

getDefaultOptions ==
    (kMZ :> 2) @@ (kNonMZ :> 8) @@ (kAlong :> 4) @@ (kWall :> 1) @@
    (kStartR :> 94) @@ (kStartRD :> 0) @@ (kEndR :> 94) @@ (kEndRD :> 0) @@
    (kStartW :> 80) @@ (kStartWD :> 0) @@ (kEndW :> 80) @@ (kEndWD :> 0) @@
    (kLength :> 1500) @@ (kThick :> 55) @@
    (kCross :> FALSE) @@ (kLinear :> TRUE) @@ (kRefine :> FALSE) @@
    (kRefAround :> 1) @@ (kRefAlong :> 1) @@ (kRefWall :> 1)

MinOneKeys == {kAlong, kWall, kRefAround, kRefAlong, kRefWall}
EvenKeys == {kMZ, kNonMZ}
NonNegativeKeys == {kStartR, kEndR, kStartW, kEndW, kLength, kThick}
WidthKeys == {kStartW, kEndW}

\* lines 86-93
ClampMinOne(o) ==
    [k \in DOMAIN o |-> IF k \in MinOneKeys /\ o[k] < 1 THEN 1 ELSE o[k]]

\* bug variant: the two minimum counts swapped
ClampAroundMin_Swapped(o) ==
    [o EXCEPT ![kMZ] = IF @ < 4 THEN 4 ELSE @,
              ![kNonMZ] = IF @ < 2 THEN 2 ELSE @]

\* lines 94-97
ClampAroundMin(o) ==
    [o EXCEPT ![kMZ] = IF @ < 2 THEN 2 ELSE @,
              ![kNonMZ] = IF @ < 4 THEN 4 ELSE @]

\* bug variant: ">= 0" for "> 0", so every run adds one
RoundUpEven_Always(o) ==
    [k \in DOMAIN o |-> IF k \in EvenKeys /\ o[k] % 2 >= 0 THEN o[k] + 1 ELSE o[k]]

\* lines 98-102
RoundUpEven(o) ==
    [k \in DOMAIN o |-> IF k \in EvenKeys /\ o[k] % 2 > 0 THEN o[k] + 1 ELSE o[k]]

\* lines 103-111
ClampNonNegative(o) ==
    [k \in DOMAIN o |-> IF k \in NonNegativeKeys /\ o[k] < 0 THEN 0 ELSE o[k]]

\* options[key] < 10.0*math.pi/180.0*min(startR, endR)
BelowMinWidth(w, m) == w * 180 * PiDen < 10 * PiNum * m
\* round(10.0*math.pi/180.0*min(startR, endR), 2)
MinWidthRounded(m) == Round2(10 * PiNum * m, 180 * PiDen)
\* options[width] > math.pi*0.5*options[radius]
AboveMaxWidth(w, r) == w * 2 * PiDen > PiNum * r
\* round(math.pi*0.5*options[radius], 2)
MaxWidthRounded(r) == Round2(PiNum * r, 2 * PiDen)

\* lines 112-117
ClampWidthMin(o) ==
    LET m == Min(o[kStartR], o[kEndR])
    IN  [k \in DOMAIN o |->
            IF k \in WidthKeys /\ BelowMinWidth(o[k], m)
            THEN MinWidthRounded(m) ELSE o[k]]

\* bug variant: the end width is never clamped from above
ClampWidthMax_StartOnly(o) ==
    [o EXCEPT ![kStartW] = IF AboveMaxWidth(@, o[kStartR])
                           THEN MaxWidthRounded(o[kStartR]) ELSE @]

\* lines 118-121
ClampWidthMax(o) ==
    [o EXCEPT ![kStartW] = IF AboveMaxWidth(@, o[kStartR])
                           THEN MaxWidthRounded(o[kStartR]) ELSE @,
              ![kEndW] = IF AboveMaxWidth(@, o[kEndR])
                         THEN MaxWidthRounded(o[kEndR]) ELSE @]

checkOptions(o) ==
    ClampWidthMax(ClampWidthMin(ClampNonNegative(
        RoundUpEven(ClampAroundMin(ClampMinOne(o))))))


---------------------------------------------------------------------------
(* createSegmentNoTeniaColi, line 337: 2*math.asin(mzWidth/(2*radius))     *)

\* the division is defined and the quotient is inside asin's domain [-1, 1]
AsinArgumentInDomain(mzWidth, radius) ==
    /\ 2 * radius # 0
    /\ Abs(mzWidth) <= Abs(2 * radius)

---------------------------------------------------------------------------
(* Trigonometry in fixed point: angles in half-degrees, values times Unit  *)

\* pi radians, in angle units
HalfTurn == 2 * 180

\* math.sin on [0, pi]: Bhaskara's rational approximation, exact at 0, pi/2, pi
SinHalfTurn(a) ==
    (16 * a * (HalfTurn - a) * Unit) \div (5 * HalfTurn * HalfTurn - 4 * a * (HalfTurn - a))

\* math.sin
Sin(a) ==
    LET b == a % (2 * HalfTurn)
    IN  IF b <= HalfTurn THEN SinHalfTurn(b) ELSE -SinHalfTurn(b - HalfTurn)

\* math.cos
Cos(a) == Sin(a + HalfTurn \div 2)

\* math.asin(num/den) for |num| <= |den|, den # 0: an angle in [-pi/2, pi/2]
Asin(num, den) ==
    LET a == CHOOSE c \in 0..(HalfTurn \div 2) :
                 /\ Sin(c) * Abs(den) <= Abs(num) * Unit
                 /\ \/ c = HalfTurn \div 2
                    \/ Sin(c + 1) * Abs(den) > Abs(num) * Unit
    IN  IF (num < 0) = (den < 0) THEN a ELSE -a

\* the point at angle a on the circle of the given radius in the XY plane
CirclePoint(radius, a) ==
    <<(radius * Cos(a)) \div Unit, (radius * Sin(a)) \div Unit, 0>>

\* c * (stepNum/stepDen angle units, in radians)
TimesRadians(c, stepNum, stepDen) ==
    (c * stepNum * PiNum) \div (stepDen * HalfTurn * PiDen)

\* the tangent at angle a, scaled by an angular step of stepNum/stepDen units
CircleTangent(radius, a, stepNum, stepDen) ==
    << -TimesRadians((radius * Sin(a)) \div Unit, stepNum, stepDen),
       TimesRadians((radius * Cos(a)) \div Unit, stepNum, stepDen),
       0 >>

Sub3(a, b) == <<a[1] - b[1], a[2] - b[2], a[3] - b[3]>>

---------------------------------------------------------------------------
(* Collaborators outside this file                                         *)

\* interp.interpolateCubicHermite([p0], [d0], [p1], [d1], xi)[0], xi = num/den
interpolateCubicHermite(p0, d0, p1, d1, num, den) ==
    LET n2q == num * num
        n3 == num * num * num
        d2q == den * den
        d3 == den * den * den
    IN  ( p0 * (d3 - 3 * n2q * den + 2 * n3)
        + d0 * (num * d2q - 2 * n2q * den + n3)
        + p1 * (3 * n2q * den - 2 * n3)
        + d1 * (n3 - n2q * den) ) \div d3

\* sampleHaustrum: elementsCountAroundNonMZ/2 + 1 points and tangents on the
\* circle from the junction (returned first) to the point opposite angle 0
sampleHaustrum(radius, xLast, d1Last, oLast, startAngle, elementsCountAroundNonMZ) ==
    LET half == elementsCountAroundNonMZ \div 2
        rest == HalfTurn - startAngle
        angle(k) == startAngle + (rest * k) \div half
    IN  [ x |-> [k \in 1..(half + 1) |->
                    IF k = 1 THEN xLast ELSE CirclePoint(radius, angle(k - 1))],
          d1 |-> [k \in 1..(half + 1) |->
                    IF k = 1 THEN d1Last
                    ELSE CircleTangent(radius, angle(k - 1), rest, half)],
          origin |-> [k \in 1..(half + 1) |->
                    IF k = 1 THEN oLast
                    ELSE [zone |-> "NonMZ", k |-> k - 1, mirrored |-> FALSE]] ]

\* getuListFromOuterLengthProfile: a function of its arguments
getuListFromOuterLengthProfile(xFace, d1, wallThickness, transit) ==
    [xFace |-> xFace, d1 |-> d1, wallThickness |-> wallThickness, transit |-> transit]

\* interp.smoothCubicHermiteDerivativesLine: one tangent per point, each a
\* function of the polyline and the raw tangents
smoothCubicHermiteDerivativesLine(xUp, d2UpRaw) ==
    [i \in 1..Len(xUp) |-> [at |-> i, nx |-> xUp, nd |-> d2UpRaw]]

---------------------------------------------------------------------------
(* createSegmentNoTeniaColi                                                *)

\* lines 365-366
ReflectPoint(x) == <<x[1], -x[2], x[3]>>
ReflectTangent(d1) == <<-d1[1], d1[2], d1[3]>>
ReflectOrigin(o) == [o EXCEPT !.mirrored = TRUE]
\* lines 363-368: a profile entry is a point, its tangent and where it came from
ReflectEntry(e) ==
    [x |-> ReflectPoint(e.x), d1 |-> ReflectTangent(e.d1), origin |-> ReflectOrigin(e.origin)]

\* the parallel lists x and d1 (and the origins) as one list of entries
Entries(x, d1, origin) ==
    [n \in 1..Len(x) |-> [x |-> x[n], d1 |-> d1[n], origin |-> origin[n]]]

\* bug variant: the junction point returned by the sampler is kept
HalfProfile_KeepJunction(mz, nonMZ) == mz \o nonMZ

\* lines 356-357: xList + xMZ + xNonMZ[1:], xList being empty
HalfProfile(mz, nonMZ) == mz \o Tail(nonMZ)

\* bug variant: idx = -n + lengthHalfList, one entry too late
ReflectedHalf_OffByOne(half) ==
    [n \in 1..(Len(half) - 2) |-> ReflectEntry(half[Len(half) - n + 1])]

\* lines 361-368: entries lengthHalfList-2 down to 1 (counted from 0), reflected
ReflectedHalf(half) ==
    [n \in 1..(Len(half) - 2) |-> ReflectEntry(half[Len(half) - n])]

\* lines 356-370
FaceProfile(half) == half \o ReflectedHalf(half)

NoProfile == [x |-> <<>>, d1 |-> <<>>, origin |-> <<>>]

createSegmentNoTeniaColi(elementsCountAroundMZ, elementsCountAroundNonMZ, mzWidth, radius) ==
    IF 2 * radius = 0
    THEN [outcome |-> "ZeroDivisionError"] @@ NoProfile
    ELSE IF ~AsinArgumentInDomain(mzWidth, radius)
    THEN [outcome |-> "ValueError"] @@ NoProfile
    ELSE
    LET radiansAroundMZ == 2 * Asin(mzWidth, 2 * radius)
        count == elementsCountAroundMZ \div 2 + 1
        radiansAround(n) == (radiansAroundMZ * n) \div elementsCountAroundMZ
        xMZ == [n \in 1..count |-> CirclePoint(radius, radiansAround(n - 1))]
        d1MZ == [n \in 1..count |->
                    CircleTangent(radius, radiansAround(n - 1),
                                  radiansAroundMZ, elementsCountAroundMZ)]
        oMZ == [n \in 1..count |-> [zone |-> "MZ", k |-> n - 1, mirrored |-> FALSE]]
        nonMZ == sampleHaustrum(radius, xMZ[count], d1MZ[count], oMZ[count],
                                radiansAround(count - 1), elementsCountAroundNonMZ)
        profile == FaceProfile(HalfProfile(Entries(xMZ, d1MZ, oMZ),
                                           Entries(nonMZ.x, nonMZ.d1, nonMZ.origin)))
    IN  [ outcome |-> "ok",
          x |-> [n \in DOMAIN profile |-> profile[n].x],
          d1 |-> [n \in DOMAIN profile |-> profile[n].d1],
          origin |-> [n \in DOMAIN profile |-> profile[n].origin] ]

---------------------------------------------------------------------------
(* SpecOptions: an options map, validated again and again                  *)

\* bounds of the options maps tried
MaxCount == 2
MaxMZ == 5
MaxNonMZ == 7
RadiusStep == 4
MaxRadiusSteps == 16
WidthStep == 7
MaxWidthSteps == 15
MaxRuns == 2

OptRadii == {-1} \cup {RadiusStep * k : k \in 0..MaxRadiusSteps}
OptWidths == {-1} \cup {WidthStep * k : k \in 0..MaxWidthSteps}
OptLengths == {-1, 0, Unit}

IdleSegment ==
    /\ pc = "idle"
    /\ args = <<>>
    /\ annotationArray = <<>>
    /\ transitElementList = <<>>
    /\ sRadius = <<>>
    /\ sMZWidth = <<>>
    /\ n2 = 0
    /\ n1 = 0
    /\ xList = <<>>
    /\ d1List = <<>>
    /\ uList = <<>>
    /\ d2Up = <<>>
    /\ d2Raw = <<>>
    /\ d2List = <<>>
    /\ calls = <<>>
    /\ returned = FALSE

\* integer options vary, the rest as getDefaultOptions
CountOptions ==
    { [getDefaultOptions EXCEPT ![kMZ] = c[1], ![kNonMZ] = c[2], ![kAlong] = c[3],
           ![kWall] = c[4], ![kRefAround] = c[5], ![kRefAlong] = c[6],
           ![kRefWall] = c[7]] :
        c \in ((-1)..MaxMZ) \X ((-1)..MaxNonMZ) \X ((-1)..MaxCount) \X (0..MaxCount)
              \X (0..MaxCount) \X (0..MaxCount) \X (0..MaxCount) }

\* radii and mesenteric zone widths vary
WidthOptions ==
    { [getDefaultOptions EXCEPT ![kStartR] = c[1], ![kEndR] = c[2],
           ![kStartW] = c[3], ![kEndW] = c[4]] :
        c \in OptRadii \X OptRadii \X OptWidths \X OptWidths }

\* segment length and wall thickness vary
LengthOptions ==
    { [getDefaultOptions EXCEPT ![kLength] = c[1], ![kThick] = c[2]] :
        c \in OptLengths \X OptLengths }

InitOptions ==
    /\ options \in CountOptions \cup WidthOptions \cup LengthOptions
    /\ input = options
    /\ prev = options
    /\ runs = 0
    /\ IdleSegment

\* checkOptions(options): the map is validated in place
CheckOptions ==
    /\ runs < MaxRuns
    /\ prev' = options
    /\ options' = checkOptions(options)
    /\ runs' = runs + 1
    /\ UNCHANGED <<input>>
    /\ UNCHANGED segVars

NextOptions == CheckOptions

SpecOptions == InitOptions /\ [][NextOptions]_vars

---------------------------------------------------------------------------
(* getColonSegmentInnerPointsNoTeniaColi                                   *)

\* line 257
AnnotationArray(elementsCountAroundMZ, elementsCountAroundNonMZ) ==
    [i \in 1..(elementsCountAroundMZ \div 2) |-> "mesenteric zone"]
    \o [i \in 1..elementsCountAroundNonMZ |-> "non-mesenteric zone"]
    \o [i \in 1..(elementsCountAroundMZ \div 2) |-> "mesenteric zone"]

\* bug variant: the second transition flag one slot early
TransitElementList_Early(elementsCountAroundMZ, elementsCountAroundNonMZ) ==
    [i \in 1..(elementsCountAroundMZ \div 2) |-> 0]
    \o <<1>>
    \o [i \in 1..(elementsCountAroundNonMZ - 3) |-> 0]
    \o <<1, 0>>
    \o [i \in 1..(elementsCountAroundMZ \div 2) |-> 0]

\* line 258
TransitElementList(elementsCountAroundMZ, elementsCountAroundNonMZ) ==
    [i \in 1..(elementsCountAroundMZ \div 2) |-> 0]
    \o <<1>>
    \o [i \in 1..(elementsCountAroundNonMZ - 2) |-> 0]
    \o <<1>>
    \o [i \in 1..(elementsCountAroundMZ \div 2) |-> 0]

\* lines 262-267: the value at each of the elementsCountAlongSegment + 1 planes
ScalarProfile(start, startDerivative, end, endDerivative, elementsCountAlongSegment) ==
    [i \in 1..(elementsCountAlongSegment + 1) |->
        interpolateCubicHermite(start, startDerivative, end, endDerivative,
                                i - 1, elementsCountAlongSegment)]

\* bug variant: the forward difference subtracted the wrong way round
RawAlongTangent_Swapped(xl, n, p, elementsCountAround, elementsCountAlongSegment) ==
    IF p < elementsCountAlongSegment
    THEN Sub3(xl[n + 1], xl[n + elementsCountAround + 1])
    ELSE Sub3(xl[n + 1], xl[n - elementsCountAround + 1])

\* line 302: the raw along-tangent at node n (counted from 0) of plane p
RawAlongTangent(xl, n, p, elementsCountAround, elementsCountAlongSegment) ==
    IF p < elementsCountAlongSegment
    THEN Sub3(xl[n + elementsCountAround + 1], xl[n + 1])
    ELSE Sub3(xl[n + 1], xl[n - elementsCountAround + 1])

\* bug variant: the lists of d2Raw concatenated slot after slot
Rearranged_SlotMajor(raw, elementsCountAround, elementsCountAlongSegment) ==
    [m \in 1..((elementsCountAlongSegment + 1) * elementsCountAround) |->
        raw[((m - 1) \div (elementsCountAlongSegment + 1)) + 1]
           [((m - 1) % (elementsCountAlongSegment + 1)) + 1]]

\* lines 308-310
Rearranged(raw, elementsCountAround, elementsCountAlongSegment) ==
    [m \in 1..((elementsCountAlongSegment + 1) * elementsCountAround) |->
        raw[((m - 1) % elementsCountAround) + 1][((m - 1) \div elementsCountAround) + 1]]

elementsCountAround == args.elementsCountAroundMZ + args.elementsCountAroundNonMZ

\* lines 254-258
Annotate ==
    /\ pc = "annotate"
    /\ annotationArray' = AnnotationArray(args.elementsCountAroundMZ,
                                          args.elementsCountAroundNonMZ)
    /\ transitElementList' = TransitElementList(args.elementsCountAroundMZ,
                                                args.elementsCountAroundNonMZ)
    /\ pc' = "interpolate"
    /\ UNCHANGED <<args, sRadius, sMZWidth, n2, n1, xList, d1List, uList, d2Up,
                   d2Raw, d2List, calls, returned>>
    /\ UNCHANGED optVars

\* lines 260-267
Interpolate ==
    /\ pc = "interpolate"
    /\ sRadius' = ScalarProfile(args.startRadius, args.startRadiusDerivative,
                                args.endRadius, args.endRadiusDerivative,
                                args.elementsCountAlongSegment)
    /\ sMZWidth' = ScalarProfile(args.startMZWidth, args.startMZWidthDerivative,
                                 args.endMZWidth, args.endMZWidthDerivative,
                                 args.elementsCountAlongSegment)
    /\ pc' = "rings"
    /\ UNCHANGED <<args, annotationArray, transitElementList, n2, n1, xList, d1List,
                   uList, d2Up, d2Raw, d2List, calls, returned>>
    /\ UNCHANGED optVars

\* lines 284-294: one iteration of the loop over planes
Ring ==
    /\ pc = "rings"
    /\ n2 <= args.elementsCountAlongSegment
    /\ LET z == (args.segmentLength * n2) \div args.elementsCountAlongSegment
           seg == createSegmentNoTeniaColi(args.elementsCountAroundMZ,
                      args.elementsCountAroundNonMZ, sMZWidth[n2 + 1], sRadius[n2 + 1])
           xFace == [n \in 1..elementsCountAround |-> <<seg.x[n][1], seg.x[n][2], z>>]
           raised == IF seg.outcome # "ok" THEN seg.outcome
                     ELSE IF Len(seg.x) < elementsCountAround THEN "IndexError"
                     ELSE "ok"
       IN  /\ calls' = Append(calls, [mzWidth |-> sMZWidth[n2 + 1],
                                      radius |-> sRadius[n2 + 1],
                                      outcome |-> seg.outcome,
                                      x |-> seg.x, d1 |-> seg.d1,
                                      origin |-> seg.origin])
           /\ IF raised = "ok"
              THEN /\ d1List' = d1List \o seg.d1
                   /\ xList' = xList \o xFace
                   /\ uList' = Append(uList,
                          getuListFromOuterLengthProfile(xFace, seg.d1,
                              args.wallThickness, transitElementList))
                   /\ n2' = n2 + 1
                   /\ pc' = IF n2 = args.elementsCountAlongSegment THEN "along" ELSE "rings"
              ELSE /\ pc' = "raised"
                   /\ UNCHANGED <<d1List, xList, uList, n2>>
    /\ UNCHANGED <<args, annotationArray, transitElementList, sRadius, sMZWidth, n1,
                   d2Up, d2Raw, d2List, returned>>
    /\ UNCHANGED optVars

\* lines 296-305: one iteration of the loop over angular slots
Along ==
    /\ pc = "along"
    /\ n1 < elementsCountAround
    /\ LET planes == 1..(args.elementsCountAlongSegment + 1)
           node(p) == elementsCountAround * (p - 1) + n1
           xUp == [p \in planes |-> xList[node(p) + 1]]
           raw == [p \in planes |->
                     RawAlongTangent(xList, node(p), p - 1, elementsCountAround,
                                     args.elementsCountAlongSegment)]
       IN  /\ d2Up' = Append(d2Up, raw)
           /\ d2Raw' = Append(d2Raw, smoothCubicHermiteDerivativesLine(xUp, raw))
    /\ n1' = n1 + 1
    /\ pc' = IF n1 + 1 = elementsCountAround THEN "rearrange" ELSE "along"
    /\ UNCHANGED <<args, annotationArray, transitElementList, sRadius, sMZWidth, n2,
                   xList, d1List, uList, d2List, calls, returned>>
    /\ UNCHANGED optVars

\* lines 307-312
Rearrange ==
    /\ pc = "rearrange"
    /\ d2List' = Rearranged(d2Raw, elementsCountAround, args.elementsCountAlongSegment)
    /\ returned' = TRUE
    /\ pc' = "done"
    /\ UNCHANGED <<args, annotationArray, transitElementList, sRadius, sMZWidth, n2, n1,
                   xList, d1List, uList, d2Up, d2Raw, calls>>
    /\ UNCHANGED optVars

\* bounds of the calls tried
MaxHalfMZ == 2
MaxHalfNonMZ == 2
MaxAlong == 2
GeoRadiusStep == 50
MaxGeoRadiusSteps == 1
GeoWidthStep == 60
MaxGeoWidthSteps == 2
GeoDerivative == 40

GeoRadii == {GeoRadiusStep * k : k \in (-1)..MaxGeoRadiusSteps}
GeoWidths == {GeoWidthStep * k : k \in 0..MaxGeoWidthSteps}

Arguments ==
    [ elementsCountAroundMZ : {2 * k : k \in 1..MaxHalfMZ},
      elementsCountAroundNonMZ : {2 * k : k \in 2..MaxHalfNonMZ},
      elementsCountAlongSegment : 1..MaxAlong,
      segmentLength : {getDefaultOptions[kLength]},
      wallThickness : {getDefaultOptions[kThick]},
      startRadius : GeoRadii,
      startRadiusDerivative : {0, -GeoDerivative},
      endRadius : GeoRadii,
      endRadiusDerivative : {0},
      startMZWidth : GeoWidths,
      startMZWidthDerivative : {0},
      endMZWidth : GeoWidths,
      endMZWidthDerivative : {0} ]

Init ==
    /\ options = getDefaultOptions
    /\ input = options
    /\ prev = options
    /\ runs = 0
    /\ pc = "annotate"
    /\ args \in Arguments
    /\ annotationArray = <<>>
    /\ transitElementList = <<>>
    /\ sRadius = <<>>
    /\ sMZWidth = <<>>
    /\ n2 = 0
    /\ n1 = 0
    /\ xList = <<>>
    /\ d1List = <<>>
    /\ uList = <<>>
    /\ d2Up = <<>>
    /\ d2Raw = <<>>
    /\ d2List = <<>>
    /\ calls = <<>>
    /\ returned = FALSE

Next == Annotate \/ Interpolate \/ Ring \/ Along \/ Rearrange

Spec == Init /\ [][Next]_vars

---------------------------------------------------------------------------
(* Properties of checkOptions                                              *)

\* 10deg*m <= w, exactly
AtLeastMinWidth(w, m) == w * 180 * PiDen >= 10 * PiNum * m
\* w <= pi/2*r, exactly
AtMostMaxWidth(w, r) == w * 2 * PiDen <= PiNum * r
\* 10deg*m - 0.005 <= w
NearlyAtLeastMinWidth(w, m) == (2 * w + Centi) * 180 * PiDen >= 2 * 10 * PiNum * m
\* w <= pi/2*r + 0.005
NearlyAtMostMaxWidth(w, r) == (2 * w - Centi) * 2 * PiDen <= 2 * PiNum * r

MinRadius == Min(options[kStartR], options[kEndR])

\* C1 as stated: after checkOptions both mesenteric zone widths lie in
\* [10deg*m, pi/2*m], m the smaller of the two validated inner radii.
C1_WidthsInMinRadiusRange ==
    runs >= 1 =>
        \A k \in WidthKeys :
            /\ AtLeastMinWidth(options[k], MinRadius)
            /\ AtMostMaxWidth(options[k], MinRadius)

\* C1 amended: after checkOptions each mesenteric zone width lies within
\* 0.005 of [10deg*m, pi/2*R], R the inner radius of the same end (the
\* upper clamp uses that end's radius, and a clamped value is rounded to
\* two decimals).
C1_WidthsNearOwnRadiusRange ==
    runs >= 1 =>
        /\ \A k \in WidthKeys : NearlyAtLeastMinWidth(options[k], MinRadius)
        /\ NearlyAtMostMaxWidth(options[kStartW], options[kStartR])
        /\ NearlyAtMostMaxWidth(options[kEndW], options[kEndR])

\* C1 witness: one run clamped the start width down to a rounded bound above
\* pi/2*m and clamped the end width up to a rounded bound below 10deg*m.
C1_Witness ==
    /\ runs = 1
    /\ options[kStartW] < prev[kStartW]
    /\ ~AtMostMaxWidth(options[kStartW], MinRadius)
    /\ options[kEndW] > prev[kEndW]
    /\ ~AtLeastMinWidth(options[kEndW], MinRadius)

\* C2: checkOptions is idempotent: a run on an already validated map
\* changes no key.
C2_Idempotent == runs >= 2 => options = prev

\* C2 witness: the first run clamped the start width down and the end width
\* up to rounded bounds, and a second run has been made.
C2_Witness ==
    /\ runs = 2
    /\ prev[kStartW] < input[kStartW]
    /\ prev[kEndW] > input[kEndW]
    /\ prev[kStartW] > 0
    /\ input[kEndW] > 0

\* C3: after checkOptions the around-counts are even, the mesenteric one
\* >= 2 and the non-mesenteric one >= 4, the other counts are >= 1, and no
\* count is below its input value.
C3_CountsRoundedUp ==
    runs >= 1 =>
        /\ options[kMZ] % 2 = 0
        /\ options[kMZ] >= 2
        /\ options[kNonMZ] % 2 = 0
        /\ options[kNonMZ] >= 4
        /\ \A k \in MinOneKeys : options[k] >= 1
        /\ \A k \in MinOneKeys \cup EvenKeys : options[k] >= input[k]

\* C3 witness: odd around-counts above their minimum were rounded up and a
\* negative and a zero count were raised to one.
C3_Witness ==
    /\ runs = 1
    /\ input[kMZ] = 3
    /\ options[kMZ] = 4
    /\ input[kNonMZ] = 5
    /\ options[kNonMZ] = 6
    /\ input[kAlong] = -1
    /\ options[kAlong] = 1
    /\ input[kWall] = 0
    /\ options[kWall] = 1

\* C4: for every validated options map the arcsine argument at both segment
\* ends is defined and inside the domain: width <= 2*radius, radius non-zero.
C4_EndpointAsinInDomain ==
    runs >= 1 =>
        /\ AsinArgumentInDomain(options[kStartW], options[kStartR])
        /\ AsinArgumentInDomain(options[kEndW], options[kEndR])

---------------------------------------------------------------------------
(* Properties of createSegmentNoTeniaColi                                  *)

OkCalls == {i \in DOMAIN calls : calls[i].outcome = "ok"}
eMZ == args.elementsCountAroundMZ
eNonMZ == args.elementsCountAroundNonMZ
eAlong == args.elementsCountAlongSegment

\* what an explicit guard would yield for a degenerate call
GuardedOutcomes == {"clamped", "geometry error"}

\* C5: whenever createSegmentNoTeniaColi is called with radius <= 0 or with
\* mzWidth/(2*radius) outside [-1, 1], the call clamps the input or fails
\* with a geometry error of its own (never the unguarded division or asin),
\* and the caller then returns nothing.
C5_DegenerateGeometryGuarded ==
    \A i \in DOMAIN calls :
        (calls[i].radius <= 0 \/ ~AsinArgumentInDomain(calls[i].mzWidth, calls[i].radius))
            => /\ calls[i].outcome \in GuardedOutcomes
               /\ (calls[i].outcome # "clamped" => ~returned)

Occurrences(c, zone, k) ==
    Cardinality({i \in DOMAIN c.origin :
                    c.origin[i].zone = zone /\ c.origin[i].k = k})

\* C6: a ring built from even counts has elementsCountAroundMZ +
\* elementsCountAroundNonMZ points and as many tangents; the junction point
\* appears once (and once mirrored), the end points at index 0 and N/2 once.
C6_RingSize ==
    \A i \in OkCalls :
        LET c == calls[i]
        IN  /\ Len(c.x) = eMZ + eNonMZ
            /\ Len(c.d1) = eMZ + eNonMZ
            /\ Cardinality({m \in DOMAIN c.origin :
                   c.origin[m] = [zone |-> "MZ", k |-> eMZ \div 2, mirrored |-> FALSE]}) = 1
            /\ Occurrences(c, "MZ", eMZ \div 2) = 2
            /\ Occurrences(c, "NonMZ", 0) = 0
            /\ Occurrences(c, "MZ", 0) = 1
            /\ c.origin[1] = [zone |-> "MZ", k |-> 0, mirrored |-> FALSE]
            /\ Occurrences(c, "NonMZ", eNonMZ \div 2) = 1
            /\ c.origin[(eMZ + eNonMZ) \div 2 + 1]
                   = [zone |-> "NonMZ", k |-> eNonMZ \div 2, mirrored |-> FALSE]

\* C6 witness: a ring with two elements in each half of the mesenteric zone
C6_Witness ==
    \E i \in OkCalls :
        /\ eMZ = 4
        /\ calls[i].mzWidth > 0
        /\ calls[i].radius > 0
        /\ Len(calls[i].x) = 8

\* C7: the ring is mirror-symmetric about the X axis: the points at index i
\* and (N - i) mod N have equal x and z and opposite y.
C7_MirrorSymmetric ==
    \A i \in OkCalls :
        LET c == calls[i]
            N == eMZ + eNonMZ
        IN  /\ Len(c.x) = N
            /\ \A m \in 0..(N - 1) :
                  LET a == c.x[m + 1]
                      b == c.x[((N - m) % N) + 1]
                  IN  /\ a[1] = b[1]
                      /\ a[2] = -b[2]
                      /\ a[3] = b[3]

\* C7 witness: a ring with points off the X axis on both sides
C7_Witness ==
    \E i \in OkCalls :
        /\ calls[i].radius > 0
        /\ calls[i].mzWidth > 0
        /\ calls[i].x[2][2] > 0
        /\ calls[i].x[Len(calls[i].x)][2] < 0
        /\ calls[i].x[3] # calls[i].x[Len(calls[i].x) - 1]

---------------------------------------------------------------------------
(* Properties of getColonSegmentInnerPointsNoTeniaColi                     *)

Flagged == {i \in DOMAIN transitElementList : transitElementList[i] = 1}
NonMZSlots == {i \in DOMAIN annotationArray : annotationArray[i] = "non-mesenteric zone"}
MZSlots == {i \in DOMAIN annotationArray : annotationArray[i] = "mesenteric zone"}

\* C8: the flag list and the label list have one entry per angular slot,
\* exactly two slots are flagged, they are the first and the last
\* non-mesenteric slot (indices MZ/2 and MZ/2 + NonMZ - 1 counted from 0),
\* each next to a mesenteric slot, and every ring is parameterized with
\* this same flag list.
C8_TransitionFlags ==
    pc # "annotate" =>
        /\ Len(transitElementList) = eMZ + eNonMZ
        /\ Len(annotationArray) = eMZ + eNonMZ
        /\ Cardinality(Flagged) = 2
        /\ Flagged = {eMZ \div 2 + 1, eMZ \div 2 + eNonMZ}
        /\ NonMZSlots = (eMZ \div 2 + 1)..(eMZ \div 2 + eNonMZ)
        /\ MZSlots = DOMAIN annotationArray \ NonMZSlots
        /\ eMZ \div 2 \in MZSlots
        /\ eMZ \div 2 + eNonMZ + 1 \in MZSlots
        /\ \A r \in DOMAIN uList : uList[r].transit = transitElementList

\* C8 witness: all rings of a segment with more than one ring are built
C8_Witness ==
    /\ pc = "done"
    /\ Len(uList) = eAlong + 1
    /\ eAlong >= 2
    /\ eMZ = 4

\* the point of plane i, slot j (both counted from 0)
NodeIndex(i, j) == i * elementsCountAround + j + 1
InPointList(m) == m \in DOMAIN xList

\* C9 as stated: the raw along-tangent is a forward difference on the last
\* plane and a backward difference on the first and all other planes, every
\* point index lying inside the point list.
C9_ForwardOnLastPlane ==
    \A j \in DOMAIN d2Up : \A p \in DOMAIN d2Up[j] :
        LET i == p - 1
            s == j - 1
        IN  IF i = eAlong
            THEN /\ InPointList(NodeIndex(i + 1, s))
                 /\ d2Up[j][p] = Sub3(xList[NodeIndex(i + 1, s)], xList[NodeIndex(i, s)])
            ELSE /\ InPointList(NodeIndex(i - 1, s))
                 /\ d2Up[j][p] = Sub3(xList[NodeIndex(i, s)], xList[NodeIndex(i - 1, s)])

\* C9 amended: the raw along-tangent is a forward difference (next plane
\* minus this plane) on every plane but the last, the first included, and a
\* backward difference (this plane minus the previous) on the last plane;
\* every point index lies inside the point list.
C9_BackwardOnLastPlane ==
    \A j \in DOMAIN d2Up :
        /\ DOMAIN d2Up[j] = 1..(eAlong + 1)
        /\ \A p \in DOMAIN d2Up[j] :
            LET i == p - 1
                s == j - 1
            IN  IF i = eAlong
                THEN /\ InPointList(NodeIndex(i - 1, s))
                     /\ InPointList(NodeIndex(i, s))
                     /\ d2Up[j][p] = Sub3(xList[NodeIndex(i, s)], xList[NodeIndex(i - 1, s)])
                ELSE /\ InPointList(NodeIndex(i + 1, s))
                     /\ InPointList(NodeIndex(i, s))
                     /\ d2Up[j][p] = Sub3(xList[NodeIndex(i + 1, s)], xList[NodeIndex(i, s)])

\* C9 witness: raw tangents of a slot whose points move off the axis
\* direction between planes, on three planes
C9_Witness ==
    /\ pc = "done"
    /\ eAlong = 2
    /\ \E j \in DOMAIN d2Up :
          /\ d2Up[j][1][1] # 0
          /\ d2Up[j][1][3] > 0
          /\ d2Up[j][3][3] > 0
          /\ d2Up[j][1] # d2Up[j][2]

\* C10: the returned along-tangents are ring-major and aligned with the
\* points: both lists have (elementsAlong+1)*elementsAround entries and the
\* entry of plane i, slot j is the i-th smoothed tangent of the polyline of
\* slot j, whose i-th point is the point of plane i, slot j.
C10_AlongTangentsAligned ==
    pc = "done" =>
        /\ Len(xList) = (eAlong + 1) * elementsCountAround
        /\ Len(d2List) = (eAlong + 1) * elementsCountAround
        /\ \A i \in 0..eAlong : \A j \in 0..(elementsCountAround - 1) :
              LET xUp == [p \in 1..(eAlong + 1) |-> xList[NodeIndex(p - 1, j)]]
                  smoothed == smoothCubicHermiteDerivativesLine(xUp, d2Up[j + 1])
              IN  /\ d2List[NodeIndex(i, j)] = smoothed[i + 1]
                  /\ d2List[NodeIndex(i, j)].nx[i + 1] = xList[NodeIndex(i, j)]

\* C10 witness: a returned list whose tangents differ between slots and planes
C10_Witness ==
    /\ pc = "done"
    /\ returned
    /\ eAlong = 2
    /\ d2List[1] # d2List[2]
    /\ d2List[1] # d2List[elementsCountAround + 1]
    /\ Cardinality({d2List[m] : m \in DOMAIN d2List}) = Len(d2List)

=============================================================================
